---- MODULE Spec2Model ----
(***************************************************************************)
(* A model of the two classes of the repository.                           *)
(*                                                                         *)
(* src/src/core/text_comparer.py: TextComparer, the singleton that keeps   *)
(* a cache of loaded spaCy language models, a current language and an      *)
(* active model, and compares two texts with the active model.             *)
(*                                                                         *)
(* src/src/async_runner/async_runner.py: AsyncRunner, the                  *)
(* coordinator that runs one coroutine function (run_coroutine) or a batch *)
(* of them (run_coroutines) on the calling thread, together with the part  *)
(* of asyncio it calls: the thread's current event loop                    *)
(* (asyncio.get_event_loop), asyncio.create_task, asyncio.gather,          *)
(* loop.run_until_complete and asyncio.run.                                *)
(*                                                                         *)
(* The source needs Python 3.11 or later (typing.Self).  Two things the    *)
(* code relies on differ between interpreters and threads, so the build is *)
(* part of the initial state:                                              *)
(*   py311_main    3.11-3.13, main thread: get_event_loop() creates and    *)
(*                 installs a loop when none was ever set                  *)
(*   py311_thread  3.11-3.13, any other thread: get_event_loop() raises    *)
(*                 RuntimeError when no loop is set                        *)
(*   py314         3.14 and later: get_event_loop() never creates a loop,  *)
(*                 and asyncio.run accepts any awaitable                   *)
(***************************************************************************)
EXTENDS Integers, Sequences, FiniteSets, Bags, TLC

\* Bounds of the model.
MaxLoops == 3
MaxTasks == 2
MaxBatch == 2

LoopIds == 1..MaxLoops

Builds == {"py311_main", "py311_thread", "py314"}

\* The coroutine functions handed to the coordinator.
\*   ok_a, ok_b   return a value
\*   bad_body     raises while it runs (after it was invoked)
\*   bad_call     raises when it is invoked: coroutine(*args, **kwargs) raises
\*   bad_cancel   raises asyncio.CancelledError while it runs: a BaseException
\*                that is not an Exception, so "except Exception" lets it pass
TaskFns == {"ok_a", "ok_b", "bad_body", "bad_call", "bad_cancel"}

RECURSIVE SeqsUpTo(_)
SeqsUpTo(n) ==
  IF n = 0 THEN {<<>>}
  ELSE LET shorter == SeqsUpTo(n - 1)
       IN shorter \cup {Append(b, f) : b \in {x \in shorter : Len(x) = n - 1}, f \in TaskFns}

Batches == SeqsUpTo(MaxBatch)

CallRaises(fn) == fn = "bad_call"
BodyRaises(fn) == fn = "bad_body"
Cancels(fn) == fn = "bad_cancel"
Succeeds(fn) == ~CallRaises(fn) /\ ~BodyRaises(fn) /\ ~Cancels(fn)
Value(fn) == CASE fn = "ok_a" -> 1 [] fn = "ok_b" -> 2 [] OTHER -> 0

\* What a task object or a slot of a batch result holds.
NullSlot == [kind |-> "null", v |-> 0]
ValSlot(x) == [kind |-> "value", v |-> x]
ExcSlot == [kind |-> "exc", v |-> 0]
CancelSlot == [kind |-> "cancelled", v |-> 0]

\* What a call of the coordinator evaluates to.
NullR == [kind |-> "null", v |-> 0, list |-> <<>>]
ValR(x) == [kind |-> "value", v |-> x, list |-> <<>>]
ExcR == [kind |-> "exc", v |-> 0, list |-> <<>>]
CancelR == [kind |-> "cancelled", v |-> 0, list |-> <<>>]
HandleR == [kind |-> "handle", v |-> 0, list |-> <<>>]
ListR(xs) == [kind |-> "list", v |-> 0, list |-> xs]

\* Awaiting coroutine(*args, **kwargs): its value, the Exception it raises, or
\* the CancelledError it raises.
Outcome(fn) ==
  IF Succeeds(fn) THEN ValSlot(Value(fn)) ELSE IF Cancels(fn) THEN CancelSlot ELSE ExcSlot

\* An entry of the loop table is an open loop object or is free.
FreeLoop == [state |-> "free", creator |-> "none"]
NoHandle == [state |-> "none", fn |-> "none", loop |-> 0, res |-> NullSlot]
NoRun == [fn |-> "none", wrapped |-> FALSE, res |-> NullSlot]

VARIABLES
  build,        \* the interpreter and thread the program runs on
  loop,         \* AsyncRunner.loop, the class's cached loop reference, 0 for None
  loops,        \* the event loop objects: LoopIds -> [state, creator]
  curLoop,      \* the policy's current loop of the thread, 0 for None
  setCalled,    \* the policy's _set_called flag of the thread
  runningLoop,  \* the loop that is driving the thread, 0 for none
  handle,       \* the asyncio.Task the call that has just returned gave the caller
  pending,      \* the other scheduled asyncio.Tasks: a bag of [fn, wrapped, loop]
  ran,          \* the task of that bag the running loop has just run, and how it ended
  ret           \* the call of the coordinator that has just returned: its context
                \* (ctx, preCur), its argument, its result, the loop its runner
                \* made (boot), the state of the task it handed back (hstate)
                \* and whether it ran while no new loop could be made (exhausted)

\* TextComparer: the class attributes _shared_instance and _language_models,
\* the attributes _language and _nlp of the instance, and what its last
\* operation gave.
VARIABLES
  _shared_instance,  \* the singleton object, 0 for None
  _language_models,  \* the cache: language name -> model object, NoModel if absent
  _language,         \* the current language name
  _nlp,              \* the active model object, NoModel for None
  loads,             \* how often spacy.load(name) has returned a model, per name
  tret               \* the operation of TextComparer that has just returned

runnerVars ==
  <<build, loop, loops, curLoop, setCalled, runningLoop, handle, pending, ran, ret>>
comparerVars == <<_shared_instance, _language_models, _language, _nlp, loads, tret>>
vars == <<runnerVars, comparerVars>>

\* The names of language models: two that can be asked for, and the empty name.
Languages == {"en", "de"}
Names == Languages \cup {""}

\* The language argument of compare_similarity: a name, or None.
NoneArg == "<None>"
LanguageArgs == Names \cup {NoneArg}

\* The texts compared.
Texts == {"", "Hello"}

\* What spacy.load(name) does when it is called: it returns a model, raises
\* OSError (the model is not installed), or raises another exception.
LoaderOutcomes == {"ok", "oserror", "error"}

\* A model object: the language it was loaded for and which load of that
\* language made it (every spacy.load returns a new object).
NoModel == [lang |-> "", serial |-> 0]
Model(name, n) == [lang |-> name, serial |-> n]

NoOp ==
  [op |-> "none", arg |-> "", res |-> "none", by |-> NoModel, hit |-> FALSE,
   called |-> FALSE, obj |-> 0, fresh |-> FALSE]

NoCall ==
  [op |-> "none", ctx |-> "none", task |-> "none", batch |-> <<>>, res |-> NullR,
   boot |-> 0, preCur |-> 0, hstate |-> "none", exhausted |-> FALSE]

Init ==
  /\ build \in Builds
  /\ loop = 0
  /\ loops = [l \in LoopIds |-> FreeLoop]
  /\ curLoop = 0
  /\ setCalled = FALSE
  /\ runningLoop = 0
  /\ handle = NoHandle
  /\ pending = EmptyBag
  /\ ran = NoRun
  /\ ret = NoCall
  /\ _shared_instance = 0
  /\ _language_models = [name \in Languages |-> NoModel]
  /\ _language = ""
  /\ _nlp = NoModel
  /\ loads = [name \in Languages |-> 0]
  /\ tret = NoOp

----------------------------------------------------------------------------
(* asyncio, as far as the coordinator uses it.  The operators below work   *)
(* on a record s = [loops, cur, setCalled, handle, pending, exhausted] of  *)
(* the thread's state so that one call of the coordinator, which makes     *)
(* several asyncio calls in sequence, is one step of the model.            *)
(* s.exhausted says that the process has run out of the resources a new    *)
(* event loop needs (file descriptors for its selector and self-pipe), so  *)
(* that asyncio.new_event_loop() raises OSError.                           *)

ThreadState ==
  [loops |-> loops, cur |-> curLoop, setCalled |-> setCalled, handle |-> handle,
   pending |-> pending, exhausted |-> FALSE]

\* The same thread at a moment when no new event loop can be made.
ExhaustedState == [ThreadState EXCEPT !.exhausted = TRUE]

\* The ids no open loop object occupies (a closed loop object is gone: its
\* entry is free again), and the lowest of them.
Unused(ls) == {l \in LoopIds : ls[l].state # "open"}
FreshLoop(ls) == CHOOSE l \in Unused(ls) : \A k \in Unused(ls) : l <= k

\* The scheduling context a call finds: ActiveContext, InactiveContext, NoContext.
Context ==
  IF runningLoop # 0 THEN "active" ELSE IF curLoop # 0 THEN "inactive" ELSE "none"

\* asyncio.get_event_loop(): the running loop if there is one; else the policy's
\* current loop, which the main thread of Python 3.11-3.13 creates and installs
\* when no loop was ever set; loop 0 stands for the RuntimeError
\* "There is no current event loop", and oserr for the OSError of a
\* new_event_loop() that fails, which leaves the policy as it was.
get_event_loop(s) ==
  IF runningLoop # 0 THEN [s |-> s, loop |-> runningLoop, oserr |-> FALSE]
  ELSE IF s.cur = 0 /\ ~s.setCalled /\ build = "py311_main"
  THEN (IF s.exhausted THEN [s |-> s, loop |-> 0, oserr |-> TRUE]
        ELSE LET l == FreshLoop(s.loops)
             IN [s |-> [s EXCEPT !.loops[l] = [state |-> "open", creator |-> "probe"],
                                 !.cur = l, !.setCalled = TRUE],
                 loop |-> l, oserr |-> FALSE])
  ELSE [s |-> s, loop |-> s.cur, oserr |-> FALSE]

\* current_loop.is_running()
is_running(l) == l = runningLoop

\* The branch condition never taken: every call bootstraps.
UseExistingLoop_Never(current_loop) == FALSE

\* The branch condition without its is_running() test.
UseExistingLoop_AnyLoop(current_loop) == current_loop # 0

\* The branch condition of both operations: attach when it holds, else bootstrap.
UseExistingLoop(current_loop) == current_loop # 0 /\ is_running(current_loop)

\* A scheduled task nobody holds a reference to.
Scheduled(fn, wrapped, l) == SetToBag({[fn |-> fn, wrapped |-> wrapped, loop |-> l]})

\* create_task scheduling the task on the policy's current loop, which need not
\* be the loop that is running.
create_task_OnPolicyLoop(s, fn) ==
  [s EXCEPT !.handle = [state |-> "pending", fn |-> fn, loop |-> s.cur, res |-> NullSlot]]

\* asyncio.create_task(coroutine(*args, **kwargs)): a new task on the running
\* loop, pending until that loop runs it; the caller gets the task object.
create_task(s, fn) ==
  [s EXCEPT !.handle = [state |-> "pending", fn |-> fn, loop |-> runningLoop,
                        res |-> NullSlot]]

\* The wrapper invoking coroutine(*args, **kwargs) before its try block.
_run_coroutine_in_loop_CallOutsideTry(fn) ==
  IF CallRaises(fn) THEN ExcSlot
  ELSE IF Outcome(fn).kind = "exc" THEN NullSlot ELSE Outcome(fn)

\* AsyncRunner._run_coroutine_in_loop_: the value of the task, None if it
\* raised an Exception, when it was invoked or while it ran; a CancelledError
\* is not caught and ends the wrapper.
_run_coroutine_in_loop_(fn) ==
  IF Outcome(fn).kind = "exc" THEN NullSlot ELSE Outcome(fn)

\* What a task object holds once its loop has run it.
TaskResult(fn, wrapped) == IF wrapped THEN _run_coroutine_in_loop_(fn) ELSE Outcome(fn)

RECURSIVE EnsureFutures(_, _, _)
EnsureFutures(s, batch, l) ==
  IF batch = <<>> THEN s
  ELSE EnsureFutures([s EXCEPT !.pending = @ (+) Scheduled(Head(batch), TRUE, l)],
                     Tail(batch), l)

\* asyncio.gather(*[cls._run_coroutine_in_loop_(c, ...) for c in coroutines]):
\* looks the loop up as get_event_loop does, makes one task per wrapped
\* coroutine on it, and returns a future bound to that loop.  With no loop to
\* be had it raises RuntimeError.
gather(s, batch) ==
  LET e == get_event_loop(s)
  IN IF e.oserr \/ e.loop = 0
     THEN [s |-> e.s, raised |-> TRUE, loop |-> 0, children |-> <<>>]
     ELSE [s |-> EnsureFutures(e.s, batch, e.loop), raised |-> FALSE, loop |-> e.loop,
           children |-> batch]

\* Runner.close(): the runner closes the loop it made and unsets the thread's
\* current loop.
RunnerClose(s, l) == [s EXCEPT !.loops[l] = FreeLoop, !.cur = 0]

\* Runner.run(main) on the runner's own loop.  A coroutine runs to completion;
\* the exception it ends with, CancelledError included, is raised to the caller.
\* A future is refused with ValueError before Python 3.14; from 3.14 on it is
\* awaited: a future that is already done gives its result, a pending one bound
\* to another loop gives RuntimeError.
RunnerRun(main) ==
  IF main.kind = "coro"
  THEN (CASE Outcome(main.fn).kind = "exc" -> ExcR
          [] Outcome(main.fn).kind = "cancelled" -> CancelR
          [] OTHER -> ValR(Outcome(main.fn).v))
  ELSE IF build # "py314" THEN ExcR
  ELSE IF main.children = <<>> THEN ListR(<<>>)
  ELSE ExcR

\* asyncio.run(main): refuses under a running loop; else makes a new loop,
\* installs it as the current loop, runs main on it and closes it on every path.
\* When the loop cannot be made, the OSError leaves Runner.__enter__ and
\* nothing was installed or closed.
asyncio_run(s, main) ==
  IF runningLoop # 0 THEN [s |-> s, res |-> ExcR, boot |-> 0]
  ELSE IF s.exhausted THEN [s |-> s, res |-> ExcR, boot |-> 0]
  ELSE LET l == FreshLoop(s.loops)
           s1 == [s EXCEPT !.loops[l] = [state |-> "open", creator |-> "bootstrap"],
                           !.cur = l, !.setCalled = TRUE]
       IN [s |-> RunnerClose(s1, l), res |-> RunnerRun(main), boot |-> l]

RECURSIVE Results(_)
Results(fns) ==
  IF fns = <<>> THEN <<>> ELSE <<_run_coroutine_in_loop_(Head(fns))>> \o Results(Tail(fns))

\* The tasks of a bag that are not scheduled on loop l.
NotOn(b, l) ==
  LET keep == {d \in BagToSet(b) : d.loop # l}
  IN [d \in keep |-> b[d]]

\* What the future of gather(*wrappers) gives once its tasks are done: their
\* results in submission order, or the CancelledError of a cancelled child.
GatherResult(fns) ==
  IF \E i \in DOMAIN fns : _run_coroutine_in_loop_(fns[i]).kind = "cancelled"
  THEN CancelR ELSE ListR(Results(fns))

\* loop.run_until_complete(future): RuntimeError "This event loop is already
\* running" when the loop is running; else the loop is driven until the
\* future's tasks are done and the future's result is returned.
run_until_complete(s, l, fut) ==
  IF is_running(l) THEN [s |-> s, res |-> ExcR, boot |-> 0]
  ELSE [s |-> [s EXCEPT !.pending = NotOn(@, l)], res |-> GatherResult(fut.children),
        boot |-> 0]

\* The outermost handler of both operations re-raising what it caught.
CatchAll_Reraise(r) == r

\* The outermost except Exception of both operations: log, return None.  An
\* exception that is not an Exception passes through to the caller.
CatchAll(r) == IF r.kind = "exc" THEN NullR ELSE r

----------------------------------------------------------------------------
(* AsyncRunner *)

\* The try block of run_coroutine: probe, then attach or bootstrap.
\* coroutine(*args, **kwargs) is evaluated before create_task or asyncio.run
\* is called, so a function that raises when invoked reaches neither.
RunCoroutineBody(s, fn) ==
  LET p == get_event_loop(s)
      current_loop == p.loop
  IN IF p.oserr THEN [s |-> p.s, res |-> ExcR, boot |-> 0]
     ELSE IF UseExistingLoop(current_loop)
     THEN (IF CallRaises(fn) THEN [s |-> p.s, res |-> ExcR, boot |-> 0]
           ELSE [s |-> create_task(p.s, fn), res |-> HandleR, boot |-> 0])
     ELSE (IF CallRaises(fn) THEN [s |-> p.s, res |-> ExcR, boot |-> 0]
           ELSE asyncio_run(p.s, [kind |-> "coro", fn |-> fn, children |-> <<>>]))

\* The try block of run_coroutines: probe, wrap every coroutine function,
\* gather the wrappers, then run the gathering future on the existing loop or
\* hand it to asyncio.run.
RunCoroutinesBody(s, batch) ==
  LET p == get_event_loop(s)
      current_loop == p.loop
      g == gather(p.s, batch)
      fut == [kind |-> "future", fn |-> "none", children |-> g.children]
  IN IF p.oserr THEN [s |-> p.s, res |-> ExcR, boot |-> 0]
     ELSE IF g.raised THEN [s |-> g.s, res |-> ExcR, boot |-> 0]
     ELSE IF UseExistingLoop(current_loop)
     THEN run_until_complete(g.s, current_loop, fut)
     ELSE asyncio_run(g.s, fut)

\* The caller holds the task object of the call that has just returned until
\* it does something else.  Letting go of a task that is still pending leaves
\* it scheduled on its loop; a finished one is gone.
LetGo(s) ==
  [s EXCEPT !.handle = NoHandle,
            !.pending = IF s.handle.state = "pending"
                        THEN @ (+) Scheduled(s.handle.fn, FALSE, s.handle.loop)
                        ELSE @]

\* The tasks scheduled and not yet run.
Outstanding ==
  BagCardinality(pending) + (IF handle.state = "pending" THEN 1 ELSE 0)

\* The model has room for a call that makes n task objects when a loop is to
\* be had: a loop object for the runner, one more where get_event_loop() would
\* make one, and the task objects.
Room(n) ==
  LET p == get_event_loop(ThreadState)
  IN /\ Cardinality(Unused(loops)) >= (IF p.s.loops # loops THEN 2 ELSE 1)
     /\ Outstanding + (IF p.loop # 0 THEN n ELSE 0) <= MaxTasks

Returned(out, op, fn, batch) ==
  /\ loops' = out.s.loops
  /\ curLoop' = out.s.cur
  /\ setCalled' = out.s.setCalled
  /\ handle' = out.s.handle
  /\ pending' = out.s.pending
  /\ ran' = NoRun
  /\ ret' = [op |-> op, ctx |-> Context, task |-> fn, batch |-> batch,
             res |-> CatchAll(out.res), boot |-> out.boot, preCur |-> curLoop,
             hstate |-> out.s.handle.state, exhausted |-> out.s.exhausted]
  /\ UNCHANGED <<comparerVars, build, loop, runningLoop>>

\* A call comes after something else the caller did, or repeats the call that
\* has just returned.  Any other call made right after one that has returned
\* is the caller letting go of that result (Forget) and then calling: the
\* call itself does to the old result what Forget does.
MayCall(op, fn, batch) ==
  \/ ret.op = "none"
  \/ ret.op = op /\ ret.task = fn /\ ret.batch = batch

run_coroutine(fn) ==
  /\ MayCall("run_one", fn, <<>>)
  /\ Room(1)
  /\ Returned(RunCoroutineBody(LetGo(ThreadState), fn), "run_one", fn, <<>>)

run_coroutines(batch) ==
  /\ MayCall("run_many", "none", batch)
  /\ Room(Len(batch))
  /\ Returned(RunCoroutinesBody(LetGo(ThreadState), batch), "run_many", "none", batch)

\* The two operations called while no new event loop can be made.  Under a
\* running loop neither operation asks for a new loop, so the calls that can
\* meet the failure are those made with no loop running.
run_coroutine_exhausted(fn) ==
  /\ runningLoop = 0
  /\ MayCall("run_one", fn, <<>>)
  /\ Room(1)
  /\ Returned(RunCoroutineBody(LetGo(ExhaustedState), fn), "run_one", fn, <<>>)

run_coroutines_exhausted(batch) ==
  /\ runningLoop = 0
  /\ MayCall("run_many", "none", batch)
  /\ Room(Len(batch))
  /\ Returned(RunCoroutinesBody(LetGo(ExhaustedState), batch), "run_many", "none", batch)

----------------------------------------------------------------------------
(* The caller of the coordinator and the event loops of its thread. *)

\* The caller turns to something else than the result of its last call.
Moved ==
  /\ ret' = NoCall
  /\ handle' = NoHandle
  /\ pending' = LetGo(ThreadState).pending
  /\ ran' = NoRun

\* The caller lets go of what its last call returned and does nothing else.
Forget ==
  /\ ret.op # "none"
  /\ Moved
  /\ UNCHANGED <<comparerVars, build, loop, loops, curLoop, setCalled, runningLoop>>

\* loop = asyncio.new_event_loop(); asyncio.set_event_loop(loop).  The caller
\* has one loop of its own at a time.
EnvSetEventLoop ==
  /\ runningLoop = 0
  /\ \A k \in LoopIds : loops[k].creator # "ambient"
  /\ Cardinality(Unused(loops)) >= 1
  /\ LET l == FreshLoop(loops)
     IN /\ loops' = [loops EXCEPT ![l] = [state |-> "open", creator |-> "ambient"]]
        /\ curLoop' = l
  /\ setCalled' = TRUE
  /\ Moved
  /\ UNCHANGED <<comparerVars, build, loop, runningLoop>>

\* The caller starts driving a loop it can reach (loop.run_forever(),
\* loop.run_until_complete(...)): the coordinator is then called from inside it.
EnvRunLoop(l) ==
  /\ runningLoop = 0
  /\ loops[l].state = "open"
  /\ loops[l].creator = "ambient" \/ l = curLoop
  /\ runningLoop' = l
  /\ Moved
  /\ UNCHANGED <<comparerVars, build, loop, loops, curLoop, setCalled>>

\* The running loop runs the task the caller holds to completion.
LoopStepHandle ==
  /\ runningLoop # 0
  /\ handle.state = "pending"
  /\ handle.loop = runningLoop
  /\ handle' = [handle EXCEPT !.state = "done", !.res = TaskResult(handle.fn, FALSE)]
  /\ UNCHANGED <<comparerVars, build, loop, loops, curLoop, setCalled, runningLoop, pending,
                 ran, ret>>

\* The running loop runs one of its other pending tasks to completion, in any
\* order; nobody holds the finished task.
LoopStep(d) ==
  /\ runningLoop # 0
  /\ BagIn(d, pending)
  /\ d.loop = runningLoop
  /\ pending' = pending (-) SetToBag({d})
  /\ ran' = [fn |-> d.fn, wrapped |-> d.wrapped, res |-> TaskResult(d.fn, d.wrapped)]
  /\ UNCHANGED <<comparerVars, build, loop, loops, curLoop, setCalled, runningLoop, handle, ret>>

\* The running loop stops.
EnvStopLoop ==
  /\ runningLoop # 0
  /\ runningLoop' = 0
  /\ Moved
  /\ UNCHANGED <<comparerVars, build, loop, loops, curLoop, setCalled>>

PendingOn(l) ==
  {d \in BagToSet(pending) : d.loop = l}

\* The caller closes a loop of its own that is neither running nor current and
\* has no work left.
EnvCloseLoop(l) ==
  /\ loops[l].state = "open"
  /\ loops[l].creator = "ambient"
  /\ l # runningLoop
  /\ l # curLoop
  /\ PendingOn(l) = {}
  /\ ~(handle.state = "pending" /\ handle.loop = l)
  /\ loops' = [loops EXCEPT ![l] = FreeLoop]
  /\ Moved
  /\ UNCHANGED <<comparerVars, build, loop, curLoop, setCalled, runningLoop>>

\* A loop made by get_event_loop() that nothing refers to any more is
\* reclaimed by the garbage collector, which closes it and destroys the tasks
\* still pending on it.
CollectLoop(l) ==
  /\ loops[l].state = "open"
  /\ loops[l].creator = "probe"
  /\ l # runningLoop
  /\ l # curLoop
  /\ ~(handle.state = "pending" /\ handle.loop = l)
  /\ loops' = [loops EXCEPT ![l] = FreeLoop]
  /\ pending' = NotOn(pending, l)
  /\ UNCHANGED <<comparerVars, build, loop, curLoop, setCalled, runningLoop, handle, ran, ret>>

Next ==
  \/ \E fn \in TaskFns : run_coroutine(fn)
  \/ \E batch \in Batches : run_coroutines(batch)
  \/ Forget
  \/ EnvSetEventLoop
  \/ \E l \in LoopIds : EnvRunLoop(l)
  \/ LoopStepHandle
  \/ \E d \in BagToSet(pending) : LoopStep(d)
  \/ EnvStopLoop
  \/ \E l \in LoopIds : EnvCloseLoop(l)
  \/ \E l \in LoopIds : CollectLoop(l)

Spec == Init /\ [][Next]_vars

\* The same program in a process that can run out of resources: any call of
\* the coordinator may happen while no new event loop can be made.
NextSF ==
  \/ Next
  \/ \E fn \in TaskFns : run_coroutine_exhausted(fn)
  \/ \E batch \in Batches : run_coroutines_exhausted(batch)

SpecSF == Init /\ [][NextSF]_vars

----------------------------------------------------------------------------
(* TextComparer.  None of its methods suspends (load_language has no await *)
(* and compare_similarity awaits only load_language), so each runs as one  *)
(* step.  The operators work on a record c of the class and instance       *)
(* attributes; what a method raises is named in the field raised.          *)

ComparerState ==
  [instance |-> _shared_instance, models |-> _language_models, language |-> _language,
   nlp |-> _nlp, loads |-> loads]

\* init(): the attributes of a new instance.
init(c) == [c EXCEPT !.language = "", !.nlp = NoModel]

\* __new__ making and initialising an object on every construction.
New_Always(c) == init([c EXCEPT !.instance = c.instance + 1])

\* __new__: the first construction makes the object and runs init on it,
\* every construction returns the object of the class.
New(c) == IF c.instance = 0 THEN init([c EXCEPT !.instance = 1]) ELSE c

\* The setter of language: ValueError for the empty name, else the name is
\* stored; no model is loaded.
language_setter(c, value) ==
  IF value = "" THEN [c |-> c, raised |-> "ValueError"]
  ELSE [c |-> [c EXCEPT !.language = value], raised |-> "none"]

\* The outcome of a method that raises before it has changed anything.
Raises(c, exc, called) ==
  [c |-> c, raised |-> exc, by |-> NoModel, hit |-> FALSE, called |-> called]

\* spacy.load(language) returning a model and lines 103-105 storing it.
Loaded(c, language) ==
  LET nlp == Model(language, c.loads[language] + 1)
  IN [c |-> [c EXCEPT !.nlp = nlp, !.models[language] = nlp, !.language = language,
                      !.loads[language] = @ + 1],
      raised |-> "none", by |-> NoModel, hit |-> FALSE, called |-> TRUE]

\* load_language without its look into the cache.
LoadLanguage_NoCache(c, language, loader) ==
  IF language = "" THEN Raises(c, "ValueError", FALSE)
  ELSE CASE loader = "oserror" -> Raises(c, "RuntimeError", TRUE)
         [] loader = "error" -> Raises(c, "Exception", TRUE)
         [] OTHER -> Loaded(c, language)

\* load_language storing the name before it loads the model.
LoadLanguage_NameFirst(c, language, loader) ==
  IF language = "" THEN Raises(c, "ValueError", FALSE)
  ELSE IF c.models[language] # NoModel
  THEN [c |-> [c EXCEPT !.nlp = c.models[language], !.language = language],
        raised |-> "none", by |-> NoModel, hit |-> TRUE, called |-> FALSE]
  ELSE CASE loader = "oserror" -> Raises([c EXCEPT !.language = language], "RuntimeError", TRUE)
         [] loader = "error" -> Raises([c EXCEPT !.language = language], "Exception", TRUE)
         [] OTHER -> Loaded(c, language)

\* load_language(language): ValueError for the empty name; a cached model
\* becomes the active one; else spacy.load is called, and its model is made
\* active and cached, its OSError becomes RuntimeError, any other exception
\* is logged and raised again.
LoadLanguage(c, language, loader) ==
  IF language = "" THEN Raises(c, "ValueError", FALSE)
  ELSE IF c.models[language] # NoModel
  THEN [c |-> [c EXCEPT !.nlp = c.models[language], !.language = language],
        raised |-> "none", by |-> NoModel, hit |-> TRUE, called |-> FALSE]
  ELSE CASE loader = "oserror" -> Raises(c, "RuntimeError", TRUE)
         [] loader = "error" -> Raises(c, "Exception", TRUE)
         [] OTHER -> Loaded(c, language)

\* The truth value of the language argument: None and "" are false.
Truthy(language) == language \notin {"", NoneArg}

\* compare_similarity(source, target, language): ValueError for an empty text;
\* load_language when a language is given that differs from the current
\* name; RuntimeError when there is no active model; else the score the
\* active model gives the two texts.  What load_language raises is raised.
CompareSimilarity(c, source, target, language, loader) ==
  IF source = "" \/ target = "" THEN Raises(c, "ValueError", FALSE)
  ELSE LET l == IF Truthy(language) /\ c.language # language
                THEN LoadLanguage(c, language, loader)
                ELSE [c |-> c, raised |-> "none", by |-> NoModel, hit |-> FALSE,
                      called |-> FALSE]
       IN IF l.raised # "none" THEN l
          ELSE IF l.c.nlp = NoModel THEN [l EXCEPT !.raised = "RuntimeError"]
          ELSE [l EXCEPT !.by = l.c.nlp]

\* An operation of TextComparer has returned or raised.
Did(c, op, arg, res, by, hit, called, fresh) ==
  /\ _shared_instance' = c.instance
  /\ _language_models' = c.models
  /\ _language' = c.language
  /\ _nlp' = c.nlp
  /\ loads' = c.loads
  /\ tret' = [op |-> op, arg |-> arg, res |-> res, by |-> by, hit |-> hit,
              called |-> called, obj |-> c.instance, fresh |-> fresh]
  /\ UNCHANGED runnerVars

\* TextComparer()
Construct ==
  Did(New(ComparerState), "new", "", "ok", NoModel, FALSE, FALSE, _shared_instance = 0)

\* text_comparer.language = value
SetLanguage(value) ==
  /\ _shared_instance # 0
  /\ LET out == language_setter(ComparerState, value)
     IN Did(out.c, "set", value, IF out.raised = "none" THEN "ok" ELSE out.raised,
            NoModel, FALSE, FALSE, FALSE)

\* await text_comparer.load_language(language)
load_language(language, loader) ==
  /\ _shared_instance # 0
  /\ LET out == LoadLanguage(ComparerState, language, loader)
     IN Did(out.c, "load", language, IF out.raised = "none" THEN "ok" ELSE out.raised,
            NoModel, out.hit, out.called, FALSE)

\* await text_comparer.compare_similarity(source, target, language)
compare_similarity(source, target, language, loader) ==
  /\ _shared_instance # 0
  /\ LET out == CompareSimilarity(ComparerState, source, target, language, loader)
     IN Did(out.c, "compare", language,
            IF out.raised = "none" THEN "score" ELSE out.raised,
            out.by, out.hit, out.called, FALSE)

NextTC ==
  \/ Construct
  \/ \E value \in Names : SetLanguage(value)
  \/ \E language \in Names, loader \in LoaderOutcomes : load_language(language, loader)
  \/ \E source \in Texts, target \in Texts, language \in LanguageArgs,
        loader \in LoaderOutcomes :
        compare_similarity(source, target, language, loader)

SpecTC == Init /\ [][NextTC]_vars

----------------------------------------------------------------------------
(* The claims.  A state in which ret.op is run_one or run_many is one in   *)
(* which that call has just returned: the caller has done nothing since.   *)

IsRunOne == \E fn \in TaskFns : run_coroutine(fn)
IsRunMany == \E batch \in Batches : run_coroutines(batch)

\* The batch result the specification describes: one slot per task, in
\* submission order, the task's value or null where it raised.
Isolated(batch) == ListR(Results(batch))

\* A loop object the coordinator's own calls made that is still open.
CoordinatorLoopOpen ==
  \E l \in LoopIds : loops[l].state = "open" /\ loops[l].creator \in {"probe", "bootstrap"}

\* C1: run_one with a task that raises yields the null sentinel in every
\* scheduling context, and the exception reaches the caller neither from the
\* call nor through what the call returned.
C1_RaisingTaskYieldsNull ==
  (ret.op = "run_one" /\ ~Succeeds(ret.task))
    => (ret.res.kind = "null" /\ handle.res.kind # "exc")

\* C2: run_many on a batch of N >= 1 tasks returns exactly N results, result[i]
\* the outcome of task[i], and never the whole-batch null while a scheduler can
\* be created and driven (the model never refuses a new loop).
C2_BatchResultsAligned ==
  (ret.op = "run_many" /\ Len(ret.batch) >= 1)
    => /\ ret.res.kind = "list"
       /\ Len(ret.res.list) = Len(ret.batch)
       /\ \A i \in 1..Len(ret.batch) :
            ret.res.list[i] = _run_coroutine_in_loop_(ret.batch[i])

\* C3: in run_many a batch with raising tasks returns a sequence with null at
\* exactly the indices of the tasks that raise and each other task's value at
\* its own index; a failing task never makes the whole batch null.
C3_FailuresIsolated ==
  (ret.op = "run_many" /\ \E i \in 1..Len(ret.batch) : ~Succeeds(ret.batch[i]))
    => /\ ret.res.kind = "list"
       /\ DOMAIN ret.res.list = DOMAIN ret.batch
       /\ \A i \in DOMAIN ret.batch :
            /\ ~Succeeds(ret.batch[i]) <=> ret.res.list[i] = NullSlot
            /\ Succeeds(ret.batch[i]) => ret.res.list[i] = ValSlot(Value(ret.batch[i]))

\* C4: called under an active scheduler, run_many returns the results of its
\* wrapped tasks in submission order, not the whole-batch null.
C4_ActiveBatchCompletes ==
  (ret.op = "run_many" /\ ret.ctx = "active")
    => (ret.res.kind # "null" /\ ret.res = Isolated(ret.batch))

\* C5: with no scheduler active, run_one with a task that succeeds makes a new
\* scheduler, runs the task to completion on it before returning, and returns
\* exactly the task's value: no pending handle, no null, and the scheduler it
\* made is gone.
C5_BootstrapReturnsValue ==
  (ret.op = "run_one" /\ ret.ctx # "active" /\ Succeeds(ret.task))
    => /\ ret.res = ValR(Value(ret.task))
       /\ handle = NoHandle
       /\ ret.boot # 0
       /\ loops[ret.boot].state # "open"

C5_Witness ==
  /\ ret.op = "run_one"
  /\ ret.ctx = "inactive"
  /\ ret.task = "ok_b"
  /\ ret.res = ValR(Value("ok_b"))
  /\ ret.boot # 0

\* C6 as stated: under an active scheduler run_one returns a pending handle,
\* whatever the task.
C6_ActiveAlwaysHandle ==
  (ret.op = "run_one" /\ ret.ctx = "active") => ret.res.kind = "handle"

\* C6, amended: under an active scheduler, run_one with a task whose invocation
\* does not raise returns a handle for that task scheduled on the running
\* scheduler, no new scheduler is made, the handle is pending when the call
\* returns, and once the scheduler has run the task the handle holds the
\* task's true outcome (its value, or the exception it raised); a task whose
\* invocation raises gives the null sentinel.
C6_AttachReturnsHandle ==
  (ret.op = "run_one" /\ ret.ctx = "active")
    => IF CallRaises(ret.task)
       THEN ret.res.kind = "null" /\ handle = NoHandle
       ELSE /\ ret.res.kind = "handle"
            /\ ret.hstate = "pending"
            /\ ret.boot = 0
            /\ handle.fn = ret.task
            /\ handle.loop = runningLoop
            /\ handle.state \in {"pending", "done"}
            /\ handle.state = "pending" => handle.res = NullSlot
            /\ handle.state = "done" => handle.res = Outcome(ret.task)

C6_Witness ==
  /\ ret.op = "run_one"
  /\ ret.ctx = "active"
  /\ ret.task = "bad_body"
  /\ ret.res.kind = "handle"
  /\ ret.hstate = "pending"
  /\ handle.state = "done"
  /\ handle.res = ExcSlot

\* C7: run_many with a batch of zero tasks returns an empty sequence, not the
\* null sentinel, in every scheduling context.
C7_EmptyBatchEmptyList ==
  (ret.op = "run_many" /\ ret.batch = <<>>) => ret.res = ListR(<<>>)

\* C8: a call of the coordinator leaves every scheduler that existed before it
\* open, in the same running state and, if it was the thread's current
\* scheduler, still the current one; and it makes no scheduler while probing.
C8_CallKeepsForeignLoops ==
  (IsRunOne \/ IsRunMany)
    => /\ \A l \in LoopIds :
            loops[l].state = "open"
              => (loops'[l] = loops[l] /\ (curLoop = l => curLoop' = l))
       /\ runningLoop' = runningLoop
       /\ \A l \in LoopIds : loops'[l].creator = "probe" => loops[l].creator = "probe"

C8_ForeignSchedulerUntouched == [][C8_CallKeepsForeignLoops]_vars

\* C9: whenever no call of the coordinator is in progress, no scheduler the
\* coordinator made is open.
C9_NoCoordinatorLoopLeftOpen == ~CoordinatorLoopOpen

\* C10: with no active scheduler, two calls in a row of run_one (of run_many)
\* with the same successful task give the same value both times, and after each
\* of them the thread's current scheduler is what it was before the first and
\* no scheduler of the coordinator's is left open.
C10_Clean == ~CoordinatorLoopOpen /\ curLoop = ret.preCur

C10_SecondCall ==
  /\ \A fn \in TaskFns :
       (/\ ret.op = "run_one" /\ ret.task = fn /\ ret.ctx # "active"
        /\ Succeeds(fn) /\ run_coroutine(fn))
         => /\ ret.res = ValR(Value(fn))
            /\ ret'.res = ret.res
            /\ C10_Clean /\ C10_Clean' /\ curLoop' = curLoop
  /\ \A batch \in Batches :
       (/\ ret.op = "run_many" /\ ret.batch = batch /\ ret.ctx # "active"
        /\ Len(batch) >= 1
        /\ \A i \in DOMAIN batch : Succeeds(batch[i])
        /\ run_coroutines(batch))
         => /\ ret.res = Isolated(batch)
            /\ ret'.res = ret.res
            /\ C10_Clean /\ C10_Clean' /\ curLoop' = curLoop

C10_RepeatableAndClean == [][C10_SecondCall]_vars

\* Whether the call that has just returned met a SchedulingFailure: it had to
\* make a scheduler when none could be made, or it had to drive one that was
\* already running.
SchedulingFailure ==
  \/ ret.op # "none" /\ ret.exhausted /\ ret.ctx # "active"
  \/ ret.op = "run_many" /\ ret.ctx = "active"

\* C11 as stated: on a SchedulingFailure both operations return the whole-call
\* null sentinel, and no exception escapes from either operation on any
\* failure path.
C11_NoExceptionEscapes ==
  /\ SchedulingFailure => ret.res = NullR
  /\ ret.op # "none" => ret.res.kind \notin {"exc", "cancelled"}

\* C11, amended: on a SchedulingFailure both operations return the whole-call
\* null sentinel, and no exception deriving from Exception escapes from either
\* operation; an exception outside Exception (asyncio.CancelledError) escapes
\* exactly from a run_one that bootstraps a scheduler for a task that raises it.
C11_NoOrdinaryExceptionEscapes ==
  /\ SchedulingFailure => ret.res = NullR
  /\ ret.op # "none" => ret.res.kind # "exc"
  /\ ret.res.kind = "cancelled"
       <=> (/\ ret.op = "run_one" /\ ret.ctx # "active"
            /\ ~ret.exhausted /\ Cancels(ret.task))

C11_Witness ==
  /\ ret.op = "run_one"
  /\ ret.ctx = "inactive"
  /\ ret.exhausted
  /\ ret.task = "ok_a"
  /\ ret.res = NullR
  /\ ret.boot = 0
  /\ ~CoordinatorLoopOpen

\* C12: a compare_similarity(source, target, language) with a non-empty
\* language that returns a score has computed it with the model of that
\* language.
C12_ScoreByRequestedModel ==
  (tret.op = "compare" /\ Truthy(tret.arg) /\ tret.res = "score")
    => tret.by.lang = tret.arg

\* C13: the cache starts empty and an entry is made only by a load; the
\* loader returns a model for a name at most once, the entry of a name is the
\* object that one load made (never removed, never replaced), a
\* load_language(L) that finds L cached does not call the loader and one that
\* does not find it does, and after every successful load_language(L) the
\* active model is the cached object of L and the current language is L.
C13_CacheLazyNeverEvicted ==
  /\ \A name \in Languages :
       \/ loads[name] = 0 /\ _language_models[name] = NoModel
       \/ loads[name] = 1 /\ _language_models[name] = Model(name, 1)
  /\ tret.op = "load" => (tret.hit => ~tret.called)
  /\ (tret.op = "load" /\ tret.res = "ok")
       => /\ tret.hit # tret.called
          /\ _nlp = _language_models[tret.arg]
          /\ _nlp = Model(tret.arg, 1)
          /\ _language = tret.arg
  /\ _nlp # NoModel => _nlp = _language_models[_nlp.lang]

C13_Witness ==
  /\ tret.op = "load"
  /\ tret.arg = "en"
  /\ tret.res = "ok"
  /\ tret.hit
  /\ ~tret.called
  /\ loads = [name \in Languages |-> 1]
  /\ _nlp = Model("en", 1)

\* C14: every construction returns the one instance of the class; init runs
\* on the first construction only, and a later construction leaves the
\* current language, the active model and the cache as they were.
C14_Construction ==
  Construct
    => /\ tret'.obj = _shared_instance'
       /\ _shared_instance' = 1
       /\ tret'.fresh <=> _shared_instance = 0
       /\ _shared_instance # 0
            => /\ tret'.obj = _shared_instance
               /\ UNCHANGED <<_shared_instance, _language, _nlp, _language_models, loads>>

C14_SingletonKeepsState == [][C14_Construction]_vars

C14_Witness ==
  /\ tret.op = "new"
  /\ ~tret.fresh
  /\ tret.obj = 1
  /\ _shared_instance = 1
  /\ _language = "de"
  /\ _nlp = Model("en", 1)

\* C17: a load_language that raises leaves the current language, the active
\* model and the cache exactly as they were; it raises ValueError for the
\* empty name, RuntimeError when the loader raises OSError, and the loader's
\* own exception otherwise.
C17_FailedLoad ==
  \A language \in Names, loader \in LoaderOutcomes :
    load_language(language, loader)
      => /\ language = "" => tret'.res = "ValueError"
         /\ (language # "" /\ _language_models[language] = NoModel /\ loader # "ok")
              => (/\ tret'.called
                  /\ tret'.res = (IF loader = "oserror" THEN "RuntimeError" ELSE "Exception"))
         /\ tret'.res # "ok"
              => UNCHANGED <<_shared_instance, _language, _nlp, _language_models, loads>>

C17_FailedLoadNoSideEffects == [][C17_FailedLoad]_vars

C17_Witness ==
  /\ tret.op = "load"
  /\ tret.arg = "de"
  /\ tret.res = "RuntimeError"
  /\ tret.called
  /\ _language = "en"
  /\ _nlp = Model("en", 1)
  /\ _language_models["de"] = NoModel

C16_WrapperNeverPropagates ==
  ran.wrapped
    => ran.res = (IF Succeeds(ran.fn) THEN ValSlot(Value(ran.fn)) ELSE NullSlot)

\* C16, amended: the wrapper returns the task's value on success and the null
\* sentinel on any exception deriving from Exception, raised when the task is
\* invoked or while it runs; an exception outside Exception
\* (asyncio.CancelledError) is not caught and ends the wrapper itself.
C16_WrapperIsolatesExceptions ==
  ran.wrapped
    => /\ Succeeds(ran.fn) => ran.res = ValSlot(Value(ran.fn))
       /\ (CallRaises(ran.fn) \/ BodyRaises(ran.fn)) => ran.res = NullSlot
       /\ Cancels(ran.fn) => ran.res = CancelSlot
       /\ ran.res.kind # "exc"

C16_Witness ==
  /\ ran.wrapped
  /\ ran.fn = "bad_call"
  /\ ran.res = NullSlot
  /\ ret.op = "run_many"
  /\ ret.res = NullR

\* C18: a run_many that returns the whole-batch null sentinel leaves no task
\* of its batch scheduled: the tasks scheduled after the call are those that
\* were scheduled before it.
C18_NullBatch ==
  \A batch \in Batches :
    (run_coroutines(batch) /\ ret'.res = NullR)
      => pending' = LetGo(ThreadState).pending

C18_NullBatchLeavesNothingScheduled == [][C18_NullBatch]_vars

====
